---- MODULE Spec2Model ----
(***************************************************************************)
(* A model of src/expense_analyzer.py: one run of main() over a list of    *)
(* uploaded CSV files.  Each file is read, standardized, categorized       *)
(* through the Plaid lookup, and assigned to the Personal ledger or to a   *)
(* named Business ledger; the ledgers are then analyzed and exported.      *)
(*                                                                         *)
(* Amounts and balances are integers (cents).  A DataFrame is a sequence   *)
(* of rows; a Python dict is a sequence of [name, df] entries in insertion *)
(* order.                                                                  *)
(***************************************************************************)
EXTENDS Integers, Sequences, FiniteSets, TLC

\* ------------------------------------------------------------------ bounds

\* Files uploaded in one run.
MaxFiles == 2
\* Raw rows uploaded in one run, over all files.
MaxRows == 2

\* ------------------------------------------------------------- cell values

\* A missing cell (pandas NaN) of a text column.
NaN == "<NaN>"
\* A missing date (pandas NaT); parsed dates are day numbers 1, 2, ...
NaT == 0

\* pd.to_datetime on a raw date cell: the empty cell becomes NaT, any other
\* text that is no date raises.
CanParseDate(s) == s \in {"01/01/2024", "01/02/2024", ""}
to_datetime(s) ==
    CASE s = "01/01/2024" -> 1
      [] s = "01/02/2024" -> 2
      [] OTHER -> NaT

\* astype(float) on a raw amount or balance cell, in cents.
CanParseFloat(s) == s \in {"-3.00", "-5.00", "9.00", "97.00", "100.00", "106.00"}
astype_float(s) ==
    CASE s = "-3.00" -> -300
      [] s = "-5.00" -> -500
      [] s = "9.00" -> 900
      [] s = "97.00" -> 9700
      [] s = "100.00" -> 10000
      [] s = "106.00" -> 10600
      [] OTHER -> 0

\* ------------------------------------------------------------------ inputs

VyStarColumns == {"Transaction ID", "PostingDate", "Amount", "Description",
                  "Category", "RunningBalance"}
BoAColumns == {"Date", "Description", "Amount", "Running Bal.", "Summary Amt."}
OtherColumns == {"Date", "Memo", "Debit", "Credit"}
ColumnSets == {VyStarColumns, BoAColumns, OtherColumns}

\* A row as pd.read_csv hands it over, its cells as text.  Date is the
\* PostingDate column of a VyStar file and the Date column of a Bank of
\* America file; Bal is RunningBalance, or Running Bal.; Category is read
\* only from a VyStar file.
RawRow(d, desc, a, c, b) ==
    [Date |-> d, Description |-> desc, Amount |-> a, Category |-> c, Bal |-> b]

\* The raw rows a file is made of: three well-formed transactions (the first
\* dated after the second), a summary row without a date, a row whose date
\* is no date and a row whose amount is no number.
RawRows ==
    { RawRow("01/02/2024", "COFFEE", "-3.00", "Dining", "97.00"),
      RawRow("01/01/2024", "RENT", "-5.00", NaN, "100.00"),
      RawRow("01/02/2024", "PAYROLL", "9.00", "Income", "106.00"),
      RawRow("", "Total", "9.00", NaN, "106.00"),
      RawRow("Pending", "COFFEE", "-3.00", "Dining", "97.00"),
      RawRow("01/01/2024", "RENT", "N/A", NaN, "100.00") }

RowSeqs(n) == UNION { [1..k -> RawRows] : k \in 0..n }

\* The files a user may upload when n more raw rows fit in the run.
Uploads(n) == { [columns |-> cs, rows |-> rs] : cs \in ColumnSets, rs \in RowSeqs(n) }

\* What client.transactions_get answers: a failure, or transactions each with
\* a name and a primary personal-finance category.
PlaidTransaction(n, c) == [name |-> n, primary |-> c]
Responses ==
    { [ok |-> FALSE, transactions |-> {}],
      [ok |-> TRUE, transactions |-> {}],
      [ok |-> TRUE, transactions |-> {PlaidTransaction("COFFEE", "FOOD_AND_DRINK")}],
      [ok |-> TRUE, transactions |-> {PlaidTransaction("COFFEE", "FOOD_AND_DRINK"),
                                      PlaidTransaction("RENT", "RENT_AND_UTILITIES")}] }

BusinessNames == {"", "Acme", "Bolt"}

\* ------------------------------------------------------- sequence helpers

RECURSIVE Flatten(_)
Flatten(ss) == IF ss = <<>> THEN <<>> ELSE Head(ss) \o Flatten(Tail(ss))

RECURSIVE SumAmount(_)
SumAmount(df) == IF df = <<>> THEN 0 ELSE Head(df).Amount + SumAmount(Tail(df))

Abs(x) == IF x < 0 THEN -x ELSE x

\* --------------------------------------------------------------- the state

VARIABLES
    pc,             \* where main() stands: "load", "assign", "analyze", "report", "done"
    nfiles,         \* files taken from uploaded_files so far
    nrows,          \* raw rows in those files
    uploaded_file,  \* the loop's current file
    lookup,         \* the Plaid call for the current file: "none", "ok", "failed"
    df,             \* load_and_categorize_csv's result for the current file
    personal_data,
    all_data,       \* dict business name -> DataFrame, in insertion order
    st_errors,      \* st.error calls: [file, msg]
    requests,       \* client.transactions_get calls: the file each was made for
    assignments,    \* the selectbox / text_input answers: [file, kind, name, df]
    business_profits,
    summaries,      \* what analyze_business computed, per business
    personal_summary,
    report          \* the rows of the complete financial report

vars == <<pc, nfiles, nrows, uploaded_file, lookup, df, personal_data, all_data,
          st_errors, requests, assignments, business_profits, summaries,
          personal_summary, report>>


\* ------------------------------------------------- data processing functions

Row(d, desc, a, c, b) ==
    [Date |-> d, Description |-> desc, Amount |-> a, Category |-> c, Bal |-> b]

Raise(msg) == [raised |-> TRUE, error |-> msg, df |-> <<>>]
Return(rows) == [raised |-> FALSE, error |-> "", df |-> rows]

\* The VyStar branch: every PostingDate and Amount cell is converted, and a
\* cell that does not convert raises; an empty date becomes NaT and the row
\* stays.  The Category column is the file's own, and the balance is the
\* RunningBalance column as read.
StandardizeVyStar(rows) ==
    IF \E i \in 1..Len(rows) : ~CanParseDate(rows[i].Date)
    THEN Raise("Unknown datetime string format")
    ELSE IF \E i \in 1..Len(rows) : ~CanParseFloat(rows[i].Amount)
    THEN Raise("could not convert string to float")
    ELSE LET conv(r) == Row(to_datetime(r.Date), r.Description,
                            astype_float(r.Amount), r.Category, astype_float(r.Bal))
         IN  Return([i \in 1..Len(rows) |-> conv(rows[i])])

\* The Bank of America branch: rows without a date are removed first, then
\* the cells are converted as above; every category is 'Uncategorized'.
StandardizeBoA(rows) ==
    LET dated(r) == r.Date # ""
        kept == SelectSeq(rows, dated)
    IN  IF \E i \in 1..Len(kept) : ~CanParseDate(kept[i].Date)
        THEN Raise("Unknown datetime string format")
        ELSE IF \E i \in 1..Len(kept) :
                    ~CanParseFloat(kept[i].Amount) \/ ~CanParseFloat(kept[i].Bal)
        THEN Raise("could not convert string to float")
        ELSE LET conv(r) == Row(to_datetime(r.Date), r.Description,
                                astype_float(r.Amount), "Uncategorized",
                                astype_float(r.Bal))
             IN  Return([i \in 1..Len(kept) |-> conv(kept[i])])

\* standardize_csv without its final `else: raise`: a file of unknown layout
\* is read as a Bank of America file.
standardize_csv_no_raise(file) ==
    IF "Transaction ID" \in file.columns THEN StandardizeVyStar(file.rows)
    ELSE StandardizeBoA(file.rows)

standardize_csv(file) ==
    IF "Transaction ID" \in file.columns THEN StandardizeVyStar(file.rows)
    ELSE IF "Summary Amt." \in file.columns THEN StandardizeBoA(file.rows)
    ELSE Raise("Unsupported CSV format")

\* The dict built from the response: description -> category, NaN for a
\* description the response does not name.
categorization(response, description) ==
    IF \E t \in response.transactions : t.name = description
    THEN (CHOOSE t \in response.transactions : t.name = description).primary
    ELSE NaN

fillna(c, value) == IF c = NaN THEN value ELSE c

\* df['Category'] = df['Description'].map(categorization).fillna('Uncategorized')
ApplyCategorization(frame, response) ==
    LET cat(r) == [r EXCEPT !.Category =
                       fillna(categorization(response, r.Description), "Uncategorized")]
    IN  [i \in 1..Len(frame) |-> cat(frame[i])]

\* A lookup that is called again after a failure.
LookupCallsWithRetry(response) == IF response.ok THEN 1 ELSE 2

\* The calls of client.transactions_get one categorize_transactions makes.
LookupCalls(response) == 1

\* The request's date range is formatted first (NaT, the min of a frame
\* without a date, does not format), then the lookup is called once, then the
\* answer is applied to every row.
categorize_transactions(frame, response) ==
    IF \A i \in 1..Len(frame) : frame[i].Date = NaT
    THEN [raised |-> TRUE, error |-> "NaTType does not support strftime",
          df |-> <<>>, calls |-> 0, lookup |-> "none"]
    ELSE IF ~response.ok
    THEN [raised |-> TRUE, error |-> "transactions_get failed",
          df |-> <<>>, calls |-> LookupCalls(response), lookup |-> "failed"]
    ELSE [raised |-> FALSE, error |-> "",
          df |-> ApplyCategorization(frame, response),
          calls |-> LookupCalls(response), lookup |-> "ok"]

\* try: standardize, categorize; except Exception: st.error, empty DataFrame.
load_and_categorize_csv(file, response) ==
    LET s == standardize_csv(file)
        c == categorize_transactions(s.df, response)
    IN  IF s.raised
        THEN [df |-> <<>>, error |-> s.error, calls |-> 0, lookup |-> "none"]
        ELSE IF c.raised
        THEN [df |-> <<>>, error |-> c.error, calls |-> c.calls, lookup |-> c.lookup]
        ELSE [df |-> c.df, error |-> "", calls |-> c.calls, lookup |-> c.lookup]

\* ------------------------------------------------------- analysis functions

IsIncome(r) == r.Amount > 0
IsExpense(r) == r.Amount < 0

total_income(frame) == SumAmount(SelectSeq(frame, IsIncome))
total_expenses(frame) == Abs(SumAmount(SelectSeq(frame, IsExpense)))

\* A breakdown that forgets the df['Amount'] < 0 filter.
ExpenseRowsUnfiltered(frame) == frame

\* The rows the category breakdown is computed over.
ExpenseRows(frame) == SelectSeq(frame, IsExpense)

\* groupby('Category')['Amount'].sum().abs(): one entry per category present;
\* groupby leaves out the rows whose key is NaN.
expenses_by_category(frame) ==
    LET rows == ExpenseRows(frame)
        keys == { rows[i].Category : i \in 1..Len(rows) } \ {NaN}
    IN  [c \in keys |->
            LET inGroup(r) == r.Category = c
            IN  Abs(SumAmount(SelectSeq(rows, inGroup)))]

analyze_business(frame, name) ==
    [name |-> name,
     total_income |-> total_income(frame),
     total_expenses |-> total_expenses(frame),
     profit_loss |-> total_income(frame) - total_expenses(frame),
     expenses_by_category |-> expenses_by_category(frame)]

\* personal_data['Running Bal.'].iloc[-1]
AccountBalance(frame) == frame[Len(frame)].Bal

analyze_personal_finances(frame) ==
    [shown |-> TRUE,
     balance |-> AccountBalance(frame),
     expenses_by_category |-> expenses_by_category(frame)]

NoPersonalSummary == [shown |-> FALSE, balance |-> 0, expenses_by_category |-> <<>>]

\* ------------------------------------------------------------------ ledgers

HasKey(d, k) == \E i \in 1..Len(d) : d[i].name = k

\* d[k] = v on a dict: a new key goes last, an existing key keeps its place
\* and takes the new value.
DictSet(d, k, v) ==
    IF HasKey(d, k)
    THEN [i \in 1..Len(d) |-> IF d[i].name = k THEN [name |-> k, df |-> v] ELSE d[i]]
    ELSE Append(d, [name |-> k, df |-> v])

DictGet(d, k) == (CHOOSE i \in 1..Len(d) : d[i].name = k)

\* pd.concat([personal_data, df], ignore_index=True)
AssignPersonalData(personal, frame) == personal \o frame

\* all_data[business_name] = df
AssignBusinessData(d, name, frame) == DictSet(d, name, frame)

\* A report that lists the businesses before the personal rows.
all_transactions_business_first(personal, d) ==
    Flatten([i \in 1..Len(d) |-> d[i].df] \o <<personal>>)

\* pd.concat([personal_data] + list(all_data.values()), ignore_index=True)
all_transactions(personal, d) ==
    Flatten(<<personal>> \o [i \in 1..Len(d) |-> d[i].df])

\* ------------------------------------------------------------- main's steps

NoFile == [columns |-> {}, rows |-> <<>>]

Init ==
    /\ pc = "load"
    /\ nfiles = 0
    /\ nrows = 0
    /\ uploaded_file = NoFile
    /\ lookup = "none"
    /\ df = <<>>
    /\ personal_data = <<>>
    /\ all_data = <<>>
    /\ st_errors = <<>>
    /\ requests = <<>>
    /\ assignments = <<>>
    /\ business_profits = <<>>
    /\ summaries = <<>>
    /\ personal_summary = NoPersonalSummary
    /\ report = <<>>

\* One pass of the loop up to `if df.empty: continue`.
LoadFile ==
    /\ pc = "load"
    /\ nfiles < MaxFiles
    /\ \E file \in Uploads(MaxRows - nrows), response \in Responses :
         LET r == load_and_categorize_csv(file, response)
             n == nfiles + 1
         IN  /\ uploaded_file' = file
             /\ nfiles' = n
             /\ nrows' = nrows + Len(file.rows)
             /\ lookup' = r.lookup
             /\ df' = r.df
             /\ st_errors' = IF r.error = "" THEN st_errors
                             ELSE Append(st_errors, [file |-> n, msg |-> r.error])
             /\ requests' = requests \o [i \in 1..r.calls |-> n]
             /\ pc' = IF r.df = <<>> THEN "load" ELSE "assign"
    /\ UNCHANGED <<personal_data, all_data, assignments, business_profits,
                   summaries, personal_summary, report>>

\* The selectbox says Personal.
AssignPersonal ==
    /\ pc = "assign"
    /\ personal_data' = AssignPersonalData(personal_data, df)
    /\ assignments' = Append(assignments,
                             [file |-> nfiles, kind |-> "Personal", name |-> "", df |-> df])
    /\ pc' = "load"
    /\ UNCHANGED <<nfiles, nrows, uploaded_file, lookup, df, all_data, st_errors,
                   requests, business_profits, summaries, personal_summary, report>>

\* The selectbox says Business; the text input holds a name, or nothing.
AssignBusiness ==
    /\ pc = "assign"
    /\ \E business_name \in BusinessNames :
         /\ all_data' = IF business_name # ""
                        THEN AssignBusinessData(all_data, business_name, df)
                        ELSE all_data
         /\ assignments' = Append(assignments,
                                  [file |-> nfiles, kind |-> "Business",
                                   name |-> business_name, df |-> df])
    /\ pc' = "load"
    /\ UNCHANGED <<nfiles, nrows, uploaded_file, lookup, df, personal_data, st_errors,
                   requests, business_profits, summaries, personal_summary, report>>

\* uploaded_files is exhausted (it held at least one file).
EndOfFiles ==
    /\ pc = "load"
    /\ nfiles >= 1
    /\ pc' = "analyze"
    /\ UNCHANGED <<nfiles, nrows, uploaded_file, lookup, df, personal_data, all_data,
                   st_errors, requests, assignments, business_profits, summaries,
                   personal_summary, report>>

\* analyze_business for every business, then analyze_personal_finances.
Analyze ==
    /\ pc = "analyze"
    /\ summaries' = [i \in 1..Len(all_data) |->
                        analyze_business(all_data[i].df, all_data[i].name)]
    /\ business_profits' = [i \in 1..Len(all_data) |->
                              [name |-> all_data[i].name,
                               profit |-> analyze_business(all_data[i].df,
                                                           all_data[i].name).profit_loss]]
    /\ personal_summary' = IF personal_data # <<>>
                           THEN analyze_personal_finances(personal_data)
                           ELSE NoPersonalSummary
    /\ pc' = "report"
    /\ UNCHANGED <<nfiles, nrows, uploaded_file, lookup, df, personal_data, all_data,
                   st_errors, requests, assignments, report>>

\* The report button is pressed.
GenerateReport ==
    /\ pc = "report"
    /\ report' = all_transactions(personal_data, all_data)
    /\ pc' = "done"
    /\ UNCHANGED <<nfiles, nrows, uploaded_file, lookup, df, personal_data, all_data,
                   st_errors, requests, assignments, business_profits, summaries,
                   personal_summary>>

\* The report button is not pressed.
NoReport ==
    /\ pc = "report"
    /\ pc' = "done"
    /\ UNCHANGED <<nfiles, nrows, uploaded_file, lookup, df, personal_data, all_data,
                   st_errors, requests, assignments, business_profits, summaries,
                   personal_summary, report>>

Next ==
    \/ LoadFile
    \/ AssignPersonal
    \/ AssignBusiness
    \/ EndOfFiles
    \/ Analyze
    \/ GenerateReport
    \/ NoReport

Spec == Init /\ [][Next]_vars


\* ------------------------------------------------------ the claims' vocabulary

Last(s) == s[Len(s)]

\* The ledger a file was assigned to: "Personal", or "Business:" and a name.
PersonalKey == [kind |-> "Personal", name |-> ""]
BusinessKey(n) == [kind |-> "Business", name |-> n]
LedgerKeys == {PersonalKey} \cup { BusinessKey(n) : n \in BusinessNames \ {""} }
KeyOf(a) == [kind |-> a.kind, name |-> a.name]

\* The rows a ledger holds now.
Ledger(key) ==
    IF key = PersonalKey THEN personal_data
    ELSE IF HasKey(all_data, key.name) THEN all_data[DictGet(all_data, key.name)].df
    ELSE <<>>

\* The frames assigned to a ledger, concatenated in the order of assignment.
RECURSIVE AssignedTo(_, _)
AssignedTo(log, key) ==
    IF log = <<>> THEN <<>>
    ELSE (IF KeyOf(Head(log)) = key THEN Head(log).df ELSE <<>>)
         \o AssignedTo(Tail(log), key)

\* The ledgers in the order of their first assignment.
RECURSIVE CreationOrder(_, _)
CreationOrder(log, seen) ==
    IF log = <<>> THEN <<>>
    ELSE LET k == KeyOf(Head(log))
         IN  IF k \in LedgerKeys \ seen
             THEN <<k>> \o CreationOrder(Tail(log), seen \cup {k})
             ELSE CreationOrder(Tail(log), seen)

IsBusinessKey(k) == k.kind = "Business"

RECURSIVE SumValues(_)
SumValues(f) ==
    IF DOMAIN f = {} THEN 0
    ELSE LET c == CHOOSE c \in DOMAIN f : TRUE
         IN  f[c] + SumValues([d \in DOMAIN f \ {c} |-> f[d]])

\* The header sets no format signature matches.
Unsupported(file) == file.columns \cap {"Transaction ID", "Summary Amt."} = {}

\* C1: each ledger holds the concatenation, in processing order, of the
\* transactions of every file assigned to its name; a second assignment to
\* an existing business name appends and never replaces.
C1_LedgersAccumulate ==
    \A key \in LedgerKeys : Ledger(key) = AssignedTo(assignments, key)

\* An unset category: missing, or the 'Uncategorized' default.
Unset(c) == c \in {NaN, "Uncategorized"}

\* The frame a failed lookup should leave: every unset category 'Uncategorized'.
Fallback(frame) ==
    LET f(r) == [r EXCEPT !.Category = IF Unset(r.Category) THEN "Uncategorized"
                                       ELSE r.Category]
    IN  [i \in 1..Len(frame) |-> f(frame[i])]

\* C2: when the lookup fails for a file, the file is not dropped: all of its
\* normalized transactions, every unset category 'Uncategorized', go on to
\* assignment and reach the ledger chosen for the file, for which a summary
\* is then produced.
C2_LookupFailureKeepsFile ==
    lookup = "failed" =>
        LET want == Fallback(standardize_csv(uploaded_file).df)
        IN  /\ df = want
            /\ \/ pc = "assign"
               \/ \E k \in 1..Len(assignments) :
                     /\ assignments[k].file = nfiles
                     /\ assignments[k].df = want
            /\ (pc \in {"report", "done"} /\ Len(assignments) > 0
                    /\ Last(assignments).file = nfiles
                    /\ Last(assignments).kind = "Business"
                    /\ Last(assignments).name # "")
                => \E i \in 1..Len(summaries) : summaries[i].name = Last(assignments).name

\* C3: categorize leaves every category that was already set as it was;
\* only an unset category may change.
C3_SetCategoriesKept ==
    lookup = "ok" =>
        LET before == standardize_csv(uploaded_file).df
        IN  /\ Len(df) = Len(before)
            /\ \A i \in 1..Len(df) :
                  ~Unset(before[i].Category) => df[i].Category = before[i].Category

\* C4: a file whose header set matches no format signature fails with the
\* unsupported-format error and adds nothing to any ledger; the loop goes on
\* to the next file with the ledgers, the lookup's call log and the record of
\* assignments exactly as they were, so every other file is processed and
\* assigned as if the failing file were absent, wherever it stands.
C4_UnsupportedFileIsSkipped ==
    [][ (pc = "load" /\ nfiles' = nfiles + 1 /\ Unsupported(uploaded_file'))
        => /\ st_errors' = Append(st_errors, [file |-> nfiles',
                                              msg |-> "Unsupported CSV format"])
           /\ df' = <<>>
           /\ pc' = "load"
           /\ UNCHANGED <<personal_data, all_data, requests, assignments,
                          business_profits, summaries, personal_summary, report>> ]_vars

\* C4's case: the first file failed as unsupported, and the second file was
\* loaded and assigned.
C4_Witness ==
    /\ Len(st_errors) >= 1
    /\ st_errors[1] = [file |-> 1, msg |-> "Unsupported CSV format"]
    /\ \E k \in 1..Len(assignments) : assignments[k].file = 2 /\ Ledger(KeyOf(assignments[k])) # <<>>

\* C5: assigning a file as Business with an empty name fails with an
\* InvalidAssignmentError, creates no ledger and changes none.
C5_EmptyNameRejected ==
    [][ (/\ Len(assignments') = Len(assignments) + 1
         /\ Last(assignments').kind = "Business"
         /\ Last(assignments').name = "")
        => /\ Len(st_errors') = Len(st_errors) + 1
           /\ Last(st_errors') = [file |-> nfiles, msg |-> "InvalidAssignmentError"]
           /\ UNCHANGED <<personal_data, all_data>> ]_vars

\* C6: the export lists one row per transaction held in the ledgers, the
\* ledgers in the order of their creation (Personal or Business alike), the
\* transactions in their order within each ledger.
C6_ExportInCreationOrder ==
    (pc = "done" /\ report # <<>>)
        => LET order == CreationOrder(assignments, {})
           IN  report = Flatten([i \in 1..Len(order) |-> Ledger(order[i])])

\* C6 as amended: the export lists the Personal ledger's rows first, then the
\* Business ledgers in the order of their creation, the transactions in their
\* order within each ledger.
C6_ExportPersonalFirst ==
    (pc = "done" /\ report # <<>>)
        => LET order == SelectSeq(CreationOrder(assignments, {}), IsBusinessKey)
           IN  report = Ledger(PersonalKey)
                        \o Flatten([i \in 1..Len(order) |-> Ledger(order[i])])

\* C6's case: a Business ledger was created before the Personal ledger, and
\* the report was generated.
C6_Witness ==
    /\ pc = "done"
    /\ report # <<>>
    /\ Len(assignments) = 2
    /\ assignments[1].kind = "Business" /\ assignments[1].name # ""
    /\ assignments[2].kind = "Personal"

LatestBalance(frame) ==
    LET dates == { frame[i].Date : i \in 1..Len(frame) }
        latest == CHOOSE d \in dates : \A e \in dates : e <= d
        at == { i \in 1..Len(frame) : frame[i].Date = latest }
    IN  frame[CHOOSE i \in at : \A j \in at : j <= i].Bal

\* C8: the account balance reported for the Personal ledger is the running
\* balance of the transaction with the latest date, the last in ledger order
\* among those sharing it.
C8_BalanceOfLatestDate ==
    personal_summary.shown => personal_summary.balance = LatestBalance(personal_data)

\* The well-formed rows of a file, normalized, without their category.
WellFormed(r) == r.Date # "" /\ CanParseDate(r.Date) /\ CanParseFloat(r.Amount)
Core(r) == [Date |-> r.Date, Description |-> r.Description, Amount |-> r.Amount,
            Bal |-> r.Bal]
NormalizedCore(r) == [Date |-> to_datetime(r.Date), Description |-> r.Description,
                      Amount |-> astype_float(r.Amount), Bal |-> astype_float(r.Bal)]

\* C9: in a file of a supported format, a row whose date or amount does not
\* parse is left out, and every well-formed row is normalized, in its
\* original order, and goes on to assignment.
C9_MalformedRowsDropped ==
    (nfiles >= 1 /\ ~Unsupported(uploaded_file) /\ lookup # "failed")
        => LET good == SelectSeq(uploaded_file.rows, WellFormed)
           IN  [i \in 1..Len(df) |-> Core(df[i])]
                   = [i \in 1..Len(good) |-> NormalizedCore(good[i])]

\* The ledger the file was assigned to, if it was.
AssignedFile(file, key) ==
    \E k \in 1..Len(assignments) :
        assignments[k].file = file /\ KeyOf(assignments[k]) = key

\* C10: at most one classification request is issued per ledger, however
\* many files are accumulated into it.
C10_OneRequestPerLedger ==
    \A key \in LedgerKeys :
        Cardinality({ i \in 1..Len(requests) : AssignedFile(requests[i], key) }) <= 1

\* C10 as amended: at most one classification request is issued per uploaded
\* file, however many transactions the file holds, and a failed request is
\* not issued again.
C10_OneRequestPerFile ==
    /\ \A f \in 1..nfiles :
          Cardinality({ i \in 1..Len(requests) : requests[i] = f }) <= 1
    /\ \A i \in 1..Len(requests) : requests[i] \in 1..nfiles

\* C10's case: the lookup failed for a file of two transactions, after one
\* request.
C10_Witness ==
    /\ lookup = "failed"
    /\ Len(standardize_csv(uploaded_file).df) = 2
    /\ \E i \in 1..Len(requests) : requests[i] = nfiles

====
